---- MODULE Spec2Model ----
(***************************************************************************)
(* KeyPass (src/src/keypass/main.py): a single-user credential vault.      *)
(*                                                                         *)
(* The model has three layers:                                             *)
(*   - the vault file (.db): the tables passwords and master_password,     *)
(*     the AUTOINCREMENT counter and SQLite's write lock;                  *)
(*   - the process started from the command line (__main__): create_db,    *)
(*     the setup or verification of the master password, init_cipher and   *)
(*     uvicorn.run;                                                        *)
(*   - the request handlers, each run by a worker thread on a connection   *)
(*     of its own (get_db), split where the handler touches the database.  *)
(*                                                                         *)
(* Four specifications run them: Spec, the program from its first start,  *)
(* one request at a time; SpecConc, a server with two workers; SpecGen,    *)
(* direct calls of generate_password beside a server; SpecServe, a server  *)
(* over a vault file whose rows another master password encrypted, or     *)
(* with no cipher at all.                                                  *)
(*                                                                         *)
(* Python strings are sequences of code points, byte strings sequences of  *)
(* 0..255.  None is the sequence <<-1>>, which is neither.                 *)
(***************************************************************************)
EXTENDS Integers, Sequences, FiniteSets, TLC

\* ------------------------------------------------------------------ bounds

\* Process starts on one vault file.
MaxRuns == 2
\* Rows ever inserted into passwords (the AUTOINCREMENT counter's cap).
MaxSeq == 2
\* The longest password asked of generate_password in a direct call.
MaxLen == 3

\* ------------------------------------------------------- program constants

\* The setup loop written with `len(password) < 3`.
MinMasterLen_Three == 4 - 1
\* len(password) < 4 is rejected by the setup loop.
MinMasterLen == 4
\* (master_password * 8)[:32]
KeyRepeat == 8
KeyChars == 32
\* Fernet: the decoded key must be 32 bytes.
FernetKeyLen == 32
\* The loop written `while attempts <= 3`.
MaxAttempts_OffByOne == 3 + 1
\* while attempts < 3
MaxAttempts == 3
\* def generate_password(length: int = 16)
DefaultLength == 16

None == <<-1>>

\* ----------------------------------------------------------------- strings

Min(a, b) == IF a < b THEN a ELSE b

\* s * n
RECURSIVE Repeat(_, _)
Repeat(s, n) == IF n <= 0 THEN <<>> ELSE s \o Repeat(s, n - 1)

\* s[:n]
Prefix(s, n) == SubSeq(s, 1, Min(n, Len(s)))

\* One code point as UTF-8 (the code points of the model are below 2048).
Utf8Char(cp) ==
    IF cp < 128 THEN <<cp>>
    ELSE <<192 + (cp \div 64), 128 + (cp % 64)>>

\* str.encode() / bytes(s, "utf-8")
RECURSIVE Utf8Encode(_)
Utf8Encode(s) ==
    IF s = <<>> THEN <<>> ELSE Utf8Char(Head(s)) \o Utf8Encode(Tail(s))

\* bytes.decode()
RECURSIVE Utf8Decode(_)
Utf8Decode(b) ==
    IF b = <<>> THEN <<>>
    ELSE IF Head(b) < 128 THEN <<Head(b)>> \o Utf8Decode(Tail(b))
    ELSE <<(Head(b) - 192) * 64 + (b[2] - 128)>> \o Utf8Decode(SubSeq(b, 3, Len(b)))

\* The base64 alphabet: the character (a code point) of a sextet, and back.
\* urlsafe_b64decode reads "-" and "_" as "+" and "/".
B64Char(v) ==
    IF v < 26 THEN 65 + v
    ELSE IF v < 52 THEN 97 + (v - 26)
    ELSE IF v < 62 THEN 48 + (v - 52)
    ELSE IF v = 62 THEN 43
    ELSE 47

B64Value(ch) ==
    IF ch >= 65 /\ ch <= 90 THEN ch - 65
    ELSE IF ch >= 97 /\ ch <= 122 THEN ch - 97 + 26
    ELSE IF ch >= 48 /\ ch <= 57 THEN ch - 48 + 52
    ELSE IF ch = 43 \/ ch = 45 THEN 62
    ELSE 63

\* "="
B64Pad == 61

\* base64.b64encode: 3 bytes become 4 characters, the last group padded.
RECURSIVE B64Encode(_)
B64Encode(b) ==
    IF b = <<>> THEN <<>>
    ELSE IF Len(b) = 1 THEN
        <<B64Char(b[1] \div 4), B64Char((b[1] % 4) * 16), B64Pad, B64Pad>>
    ELSE IF Len(b) = 2 THEN
        <<B64Char(b[1] \div 4), B64Char((b[1] % 4) * 16 + (b[2] \div 16)),
          B64Char((b[2] % 16) * 4), B64Pad>>
    ELSE
        <<B64Char(b[1] \div 4), B64Char((b[1] % 4) * 16 + (b[2] \div 16)),
          B64Char((b[2] % 16) * 4 + (b[3] \div 64)), B64Char(b[3] % 64)>>
        \o B64Encode(SubSeq(b, 4, Len(b)))

\* base64.urlsafe_b64decode of a padded encoding.
RECURSIVE B64Decode(_)
B64Decode(c) ==
    IF c = <<>> THEN <<>>
    ELSE LET v == [i \in 1 .. 4 |-> B64Value(c[i])]
         IN IF c[3] = B64Pad THEN <<v[1] * 4 + (v[2] \div 16)>>
            ELSE IF c[4] = B64Pad THEN
                <<v[1] * 4 + (v[2] \div 16), (v[2] % 16) * 16 + (v[3] \div 4)>>
            ELSE
                <<v[1] * 4 + (v[2] \div 16), (v[2] % 16) * 16 + (v[3] \div 4),
                  (v[3] % 4) * 64 + v[4]>>
                \o B64Decode(SubSeq(c, 5, Len(c)))

\* "abc", "abcd", "abcdabcd" and "ébcd" as code points.
pw_abc == <<97, 98, 99>>
pw_abcd == <<97, 98, 99, 100>>
pw_abcdabcd == <<97, 98, 99, 100, 97, 98, 99, 100>>
pw_ebcd == <<233, 98, 99, 100>>
\* "wxyz": the master password of another vault.
pw_wxyz == <<119, 120, 121, 122>>

\* What the operator may type at the prompts of the setup, and at the prompt
\* of the verification.
SetupTyped == {pw_abc, pw_abcd, pw_ebcd}
Typed == SetupTyped \cup {pw_abcdabcd}

\* ---------------------------------------------------------- cipher, hashes

\* encoded_pass of init_cipher.
encoded_pass(master_password) ==
    B64Encode(Utf8Encode(Prefix(Repeat(master_password, KeyRepeat), KeyChars)))

\* Fernet(key): the key decoded; ValueError unless it is 32 bytes long.
FernetKey(key) == B64Decode(key)
FernetAccepts(key) == Len(FernetKey(key)) = FernetKeyLen

\* hashlib.sha256(...).hexdigest(): one digest per byte string.
hash_password(master_password) == <<"sha256", Utf8Encode(master_password)>>

\* The Fernet token of `data` under `key`.  The token's timestamp and IV are
\* left out: a token is opened by the key that made it and by no other.
Token(key, data) == [key |-> key, data |-> data]

\* string.ascii_letters, string.digits, string.punctuation
ascii_letters == (97 .. 122) \cup (65 .. 90)
digits == 48 .. 57
punctuation == (33 .. 47) \cup (58 .. 64) \cup (91 .. 96) \cup (123 .. 126)

\* The characters with "\\" left in.
characters_WithBackslash == ascii_letters \cup digits \cup punctuation

\* The list `characters` of generate_password: all of them but "\\".
characters == (ascii_letters \cup digits \cup punctuation) \ {92}

\* The outcomes of secrets.choice the model draws: a password is drawn as one
\* character of this sample ("\\" and "~", as far as they are in `characters`)
\* at each position.
DrawSample == {92, 126} \cap characters
Draws(length) == {[i \in 1 .. length |-> c] : c \in DrawSample}

\* "".join(secrets.choice(characters) for _ in range(length)), the i-th draw
\* being draw[i].
generate_password(length, draw) == [i \in 1 .. length |-> draw[i]]

\* ------------------------------------------------------------------ inputs

Titles == {"github", "gitlab"}
Usernames == {"alice", "bob"}
Urls == {"N/A", "https://github.com"}
\* "pw"
pw_user == <<112, 119>>
\* PasswordEntry.password: omitted (None) or supplied.
EntryPasswords == {None, pw_user}

\* class PasswordEntry(BaseModel)
PasswordEntry ==
    [title : Titles, username : Usernames, url : Urls,
     password : EntryPasswords, generate : BOOLEAN]

\* The entries the requests of the model carry: two usernames under "github",
\* one under "gitlab".
Entries == {e \in PasswordEntry : e.title = "gitlab" => e.username = "alice"}

\* The order of the index on (title, username), which serves the reads by
\* title and SELECT DISTINCT title.
TitleOrder == <<"github", "gitlab">>
UsernameOrder == <<"alice", "bob">>

Workers == {1, 2}

\* ------------------------------------------------------------------- state

VARIABLES
    schema,           \* the tables of .db exist
    master_password,  \* table master_password: rows [id, password_hash]
    passwords,        \* table passwords: rows [id, title, username, url, password]
    sqlite_sequence,  \* AUTOINCREMENT: the largest id table passwords ever held
    db_lock,          \* the worker whose connection holds the write lock, 0 for
                      \* none, or Leaked for a connection already closed
    run,              \* the number of the process run
    pc,               \* where __main__ is
    password,         \* __main__'s and setup_master_password's variable password
    attempts,         \* __main__'s variable attempts
    cipher,           \* the global cipher: None or the Fernet key
    prompts,          \* getpass("") calls of the verification loop, this run
    inits,            \* init_cipher calls that returned, this run
    confirm,          \* setup_master_password's variable confirm
    rpc,              \* per worker: where its handler is
    req,              \* per worker: the request in hand, or the last one
    local,            \* per worker: the handler's variables and its transaction
    resp,             \* per worker: the response to req, once sent
    during,           \* per worker: the workers whose requests in hand ran during its own
    length,           \* generate_password's argument, at its last direct call
    generated         \* what that call returned or raised

vault == <<schema, master_password, passwords, sqlite_sequence, db_lock>>
process == <<run, pc, password, attempts, cipher, prompts, inits, confirm>>
workers == <<rpc, req, local, resp, during>>
generator == <<length, generated>>
vars == <<vault, process, workers, generator>>

NoReq ==
    [op |-> "none", title |-> "", username |-> "", url |-> "",
     password |-> None, generate |-> FALSE]
NoLocal ==
    [password |-> None, encrypted_password |-> None, txn |-> {},
     seq |-> 0, rowcount |-> 0]
NoResp == [status |-> 0, body |-> <<>>]

\* generate_password has not been called directly.
NotCalled == [ok |-> FALSE, val |-> "not called"]

Terminal == {"locked", "crashed", "stopped"}

Init ==
    /\ schema = FALSE
    /\ master_password = {}
    /\ passwords = {}
    /\ sqlite_sequence = 0
    /\ db_lock = 0
    /\ run = 1
    /\ pc = "start"
    /\ password = None
    /\ attempts = 0
    /\ cipher = None
    /\ prompts = 0
    /\ inits = 0
    /\ confirm = None
    /\ rpc = [w \in Workers |-> "idle"]
    /\ req = [w \in Workers |-> NoReq]
    /\ local = [w \in Workers |-> NoLocal]
    /\ resp = [w \in Workers |-> NoResp]
    /\ during = [w \in Workers |-> {}]
    /\ length = DefaultLength
    /\ generated = NotCalled

\* ------------------------------------------------------------- the process

\* create_db(): CREATE TABLE IF NOT EXISTS, twice.
create_db ==
    /\ pc = "start"
    /\ schema' = TRUE
    /\ pc' = "is_db_initialized"
    /\ UNCHANGED <<master_password, passwords, sqlite_sequence, db_lock>>
    /\ UNCHANGED <<run, password, attempts, cipher, prompts, inits>>
    /\ UNCHANGED workers
    /\ UNCHANGED confirm
    /\ UNCHANGED generator

\* The setup run on every start.
is_db_initialized_Never == FALSE

\* SELECT COUNT(*) FROM master_password ... > 0
is_db_initialized == Cardinality(master_password) > 0

\* if not is_db_initialized(): ... else: attempts = 0
branch ==
    /\ pc = "is_db_initialized"
    /\ pc' = IF is_db_initialized THEN "verify" ELSE "setup_password"
    /\ attempts' = 0
    /\ UNCHANGED vault
    /\ UNCHANGED <<run, password, cipher, prompts, inits>>
    /\ UNCHANGED workers
    /\ UNCHANGED confirm
    /\ UNCHANGED generator

\* INSERT INTO master_password (password_hash) VALUES (?): id is an INTEGER
\* PRIMARY KEY, one more than the largest in the table.
InsertMaster(table, digest) ==
    LET ids == {r.id : r \in table}
        next == IF ids = {} THEN 1
                ELSE (CHOOSE i \in ids : \A j \in ids : j <= i) + 1
    IN table \cup {[id |-> next, password_hash |-> digest]}

\* setup_master_password: password = getpass("Create master password: ");
\* too short a password goes round the loop.
setup_password(typed) ==
    /\ pc = "setup_password"
    /\ password' = typed
    /\ pc' = IF Len(typed) < MinMasterLen THEN "setup_password" ELSE "setup_confirm"
    /\ UNCHANGED vault
    /\ UNCHANGED <<run, attempts, cipher, prompts, inits>>
    /\ UNCHANGED workers
    /\ UNCHANGED confirm
    /\ UNCHANGED generator

\* setup_master_password: confirm = getpass("Verify master password: "); on a
\* match the hash is inserted and committed and the password returned.
setup_confirm(typed) ==
    /\ pc = "setup_confirm"
    /\ confirm' = typed
    /\ IF password = typed
       THEN /\ master_password' = InsertMaster(master_password, hash_password(password))
            /\ pc' = "init_cipher"
       ELSE /\ pc' = "setup_password"
            /\ UNCHANGED master_password
    /\ UNCHANGED <<schema, passwords, sqlite_sequence, db_lock>>
    /\ UNCHANGED <<run, password, attempts, cipher, prompts, inits>>
    /\ UNCHANGED workers
    /\ UNCHANGED generator

\* SELECT password_hash FROM master_password; fetchone()[0]
stored_hash == (CHOOSE r \in master_password : \A q \in master_password : r.id <= q.id).password_hash

\* verify_master_password(password)
verify_master_password(candidate) == hash_password(candidate) = stored_hash

\* One round of `while attempts < 3`: password = getpass(""); a match breaks
\* out, a third failure is sys.exit(0).
verify(typed) ==
    /\ pc = "verify"
    /\ attempts < MaxAttempts
    /\ password' = typed
    /\ prompts' = prompts + 1
    /\ IF verify_master_password(typed)
       THEN /\ pc' = "init_cipher"
            /\ UNCHANGED attempts
       ELSE /\ attempts' = attempts + 1
            /\ pc' = IF attempts + 1 < MaxAttempts THEN "verify" ELSE "locked"
    /\ UNCHANGED vault
    /\ UNCHANGED <<run, cipher, inits>>
    /\ UNCHANGED workers
    /\ UNCHANGED confirm
    /\ UNCHANGED generator

\* init_cipher(password): Fernet raises ValueError on a key that is not 32
\* bytes long, and the process ends with the traceback.
init_cipher ==
    /\ pc = "init_cipher"
    /\ IF FernetAccepts(encoded_pass(password))
       THEN /\ cipher' = FernetKey(encoded_pass(password))
            /\ inits' = inits + 1
            /\ pc' = "uvicorn_run"
       ELSE /\ pc' = "crashed"
            /\ UNCHANGED <<cipher, inits>>
    /\ UNCHANGED vault
    /\ UNCHANGED <<run, password, attempts, prompts>>
    /\ UNCHANGED workers
    /\ UNCHANGED confirm
    /\ UNCHANGED generator

\* uvicorn.run(app, ...): from here on requests are served.
uvicorn_run ==
    /\ pc = "uvicorn_run"
    /\ pc' = "serving"
    /\ UNCHANGED vault
    /\ UNCHANGED <<run, password, attempts, cipher, prompts, inits>>
    /\ UNCHANGED workers
    /\ UNCHANGED confirm
    /\ UNCHANGED generator

\* The operator ends the process (Ctrl-C), at any point from the first
\* statement of __main__ on, create_db() not yet called included: open
\* connections are closed, their transactions rolled back.
interrupt ==
    /\ pc \notin Terminal
    /\ pc' = "stopped"
    /\ db_lock' = 0
    /\ rpc' = [w \in Workers |-> "idle"]
    /\ req' = [w \in Workers |-> NoReq]
    /\ local' = [w \in Workers |-> NoLocal]
    /\ resp' = [w \in Workers |-> NoResp]
    /\ during' = [w \in Workers |-> {}]
    /\ UNCHANGED <<schema, master_password, passwords, sqlite_sequence>>
    /\ UNCHANGED <<run, password, attempts, cipher, prompts, inits>>
    /\ UNCHANGED confirm
    /\ UNCHANGED generator

\* The program is started again on the same vault file: a new process, with
\* the module's globals as the module sets them.
start_process ==
    /\ pc \in Terminal
    /\ run < MaxRuns
    /\ run' = run + 1
    /\ pc' = "start"
    /\ password' = None
    /\ attempts' = 0
    /\ cipher' = None
    /\ prompts' = 0
    /\ inits' = 0
    /\ confirm' = None
    /\ UNCHANGED vault
    /\ UNCHANGED workers
    /\ UNCHANGED generator

\* ------------------------------------------------------------ the handlers

\* get_cipher() raises RuntimeError while the cipher is None.  A result is
\* [ok |-> TRUE, val |-> ...] or [ok |-> FALSE, val |-> the exception].

\* encrypt with password.encode() evaluated before get_cipher().
encrypt_PlainFirst(plain) ==
    IF plain = None THEN [ok |-> FALSE, val |-> "AttributeError"]
    ELSE IF cipher = None THEN [ok |-> FALSE, val |-> "RuntimeError"]
    ELSE [ok |-> TRUE, val |-> Token(cipher, Utf8Encode(plain))]

\* encrypt(password): get_cipher().encrypt(password.encode()).decode(); None
\* has no encode.
encrypt(plain) ==
    IF cipher = None THEN [ok |-> FALSE, val |-> "RuntimeError"]
    ELSE IF plain = None THEN [ok |-> FALSE, val |-> "AttributeError"]
    ELSE [ok |-> TRUE, val |-> Token(cipher, Utf8Encode(plain))]

\* decrypt without the final .decode(): the bytes themselves.
decrypt_NoDecode(token) ==
    IF cipher = None THEN [ok |-> FALSE, val |-> "RuntimeError"]
    ELSE IF token.key # cipher THEN [ok |-> FALSE, val |-> "InvalidToken"]
    ELSE [ok |-> TRUE, val |-> token.data]

\* A cipher that does not authenticate: any key opens any token.
decrypt_AnyKey(token) ==
    IF cipher = None THEN [ok |-> FALSE, val |-> "RuntimeError"]
    ELSE [ok |-> TRUE, val |-> Utf8Decode(token.data)]

\* decrypt(encrypted_password): Fernet raises InvalidToken on a token made
\* under another key.
decrypt(token) ==
    IF cipher = None THEN [ok |-> FALSE, val |-> "RuntimeError"]
    ELSE IF token.key # cipher THEN [ok |-> FALSE, val |-> "InvalidToken"]
    ELSE [ok |-> TRUE, val |-> Utf8Decode(token.data)]

\* Responses: what FastAPI sends for a return value, for an HTTPException and
\* for any other exception.
Ok(body) == [status |-> 200, body |-> body]
HTTPException(status_code, detail) == [status |-> status_code, body |-> detail]
Unhandled(exception) == [status |-> 500, body |-> exception]

Request(op, e) ==
    [op |-> op, title |-> e.title, username |-> e.username, url |-> e.url,
     password |-> e.password, generate |-> e.generate]
PathRequest(op, title, username) ==
    [op |-> op, title |-> title, username |-> username, url |-> "",
     password |-> None, generate |-> FALSE]

\* The entry a create or an update returns: the request's, with the password
\* the handler assigned.
Returned(r, plain) ==
    [title |-> r.title, username |-> r.username, url |-> r.url,
     password |-> plain, generate |-> r.generate]

\* WHERE title = ? AND username = ?
Matching(table, title, username) ==
    {r \in table : r.title = title /\ r.username = username}

\* The table declared without UNIQUE (title, username).
UniqueOk_NoConstraint(table, title, username) == TRUE

\* UNIQUE (title, username): whether a row with this pair may be inserted.
UniqueOk(table, title, username) == Matching(table, title, username) = {}

\* The AUTOINCREMENT id of the next row.
NextId(seq) == seq + 1

\* A handler is running: its request is taken and its response not decided.
Running(w) == rpc[w] \notin {"idle", "responded"}

\* A worker takes a request only while the server runs.  The handlers running
\* at that moment run during this one, and it during them.
Accepts(w) ==
    /\ pc = "serving"
    /\ rpc[w] = "idle"
    /\ during' = [v \in Workers |->
           IF v = w THEN {u \in Workers \ {w} : Running(u)}
           ELSE IF Running(v) THEN during[v] \cup {w}
           ELSE during[v]]

\* The handler ends with a return value or an exception: the response is
\* decided, and the connection is still to be closed.
Respond(w, r) ==
    /\ resp' = [resp EXCEPT ![w] = r]
    /\ rpc' = [rpc EXCEPT ![w] = "responded"]
    /\ local' = [local EXCEPT ![w] = NoLocal]

\* The holder of the write lock when it is a connection that get_db has
\* closed.  create_password leaves its transaction open and its cursor
\* unfinished when the INSERT is refused.  What conn.close() does then depends
\* on the interpreter: on some (CPython 3.13) the transaction is rolled back
\* and the lock freed at once; on others (CPython 3.11) the connection stays
\* open inside SQLite, lock and all, until the cursor is collected, which is
\* when the exception that holds the handler's frame is let go.
Leaked == 0 - 1

\* What becomes of the lock when worker w's connection is closed.
AfterClose(w) == IF db_lock = w THEN {0, Leaked} ELSE {db_lock}

\* What becomes of the lock as an OperationalError leaves a handler: a leaked
\* connection's cursor may be collected at that moment.
AfterTimeout == IF db_lock = Leaked THEN {0, Leaked} ELSE {db_lock}

\* The cursor of a closed connection is collected: its statement is
\* finalized, the connection closed in earnest, its lock freed.
collect ==
    /\ db_lock = Leaked
    /\ db_lock' = 0
    /\ UNCHANGED <<schema, master_password, passwords, sqlite_sequence>>
    /\ UNCHANGED process
    /\ UNCHANGED workers
    /\ UNCHANGED generator

\* get_db, after the yield: conn.close().  The worker is free for the next
\* request.
get_db_close(w) ==
    /\ rpc[w] = "responded"
    /\ rpc' = [rpc EXCEPT ![w] = "idle"]
    /\ req' = [req EXCEPT ![w] = NoReq]
    /\ resp' = [resp EXCEPT ![w] = NoResp]
    /\ during' = [v \in Workers |-> IF v = w THEN {} ELSE during[v] \ {w}]
    /\ db_lock' \in AfterClose(w)
    /\ UNCHANGED <<schema, master_password, passwords, sqlite_sequence>>
    /\ UNCHANGED process
    /\ UNCHANGED local
    /\ UNCHANGED generator

\* create_password, up to the INSERT: the password is generated or taken from
\* the entry, and encrypted.
create_password(w, entry, draw) ==
    /\ Accepts(w)
    /\ sqlite_sequence < MaxSeq \/ ~UniqueOk(passwords, entry.title, entry.username)
    /\ req' = [req EXCEPT ![w] = Request("create", entry)]
    /\ LET plain == IF entry.generate
                    THEN generate_password(DefaultLength, draw)
                    ELSE entry.password
           encrypted_password == encrypt(plain)
       IN IF encrypted_password.ok
          THEN /\ rpc' = [rpc EXCEPT ![w] = "create_insert"]
               /\ local' = [local EXCEPT ![w] =
                      [NoLocal EXCEPT !.password = plain,
                                      !.encrypted_password = encrypted_password.val]]
               /\ UNCHANGED resp
          ELSE Respond(w, Unhandled(encrypted_password.val))
    /\ UNCHANGED vault
    /\ UNCHANGED process
    /\ UNCHANGED generator

\* A statement that writes needs the write lock.  While another connection
\* holds it the statement waits, and if it has not got it after the
\* connection's timeout (sqlite3.connect's default, 5 s) it raises
\* OperationalError("database is locked"), which no handler catches.  Time is
\* not modelled: the step of a writing statement taken while the lock is held
\* is the one that has waited in vain, the step taken once the lock is free
\* the one that got it.
Busy == db_lock # 0
DatabaseLocked == Unhandled("OperationalError")

\* create_password: cursor.execute(INSERT ...).  The statement takes the write
\* lock; a pair already stored raises IntegrityError, answered with 400, the
\* transaction staying open until the connection is closed.
create_insert(w) ==
    /\ rpc[w] = "create_insert"
    /\ IF Busy
       THEN /\ Respond(w, DatabaseLocked)
            /\ db_lock' \in AfterTimeout
       ELSE IF UniqueOk(passwords, req[w].title, req[w].username)
       THEN /\ NextId(sqlite_sequence) <= MaxSeq
            /\ db_lock' = w
            /\ local' = [local EXCEPT ![w].seq = NextId(sqlite_sequence),
                                      ![w].txn = passwords \cup
                            {[id |-> NextId(sqlite_sequence),
                              title |-> req[w].title,
                              username |-> req[w].username,
                              url |-> req[w].url,
                              password |-> local[w].encrypted_password]}]
            /\ rpc' = [rpc EXCEPT ![w] = "create_commit"]
            /\ UNCHANGED resp
       ELSE /\ db_lock' = w
            /\ Respond(w, HTTPException(400, "Username already exists for this title."))
    /\ UNCHANGED <<schema, master_password, passwords, sqlite_sequence>>
    /\ UNCHANGED process
    /\ UNCHANGED <<req, during>>
    /\ UNCHANGED generator

\* create_password: conn.commit(); return entry
create_commit(w) ==
    /\ rpc[w] = "create_commit"
    /\ passwords' = local[w].txn
    /\ sqlite_sequence' = local[w].seq
    /\ db_lock' = 0
    /\ Respond(w, Ok(Returned(req[w], local[w].password)))
    /\ UNCHANGED <<schema, master_password>>
    /\ UNCHANGED process
    /\ UNCHANGED <<req, during>>
    /\ UNCHANGED generator

\* The rank of x in an index order.
Rank(order, x) == CHOOSE i \in 1 .. Len(order) : order[i] = x

\* The rows of a set as the index on (title, username) yields them.
RECURSIVE InIndexOrder(_)
InIndexOrder(rows) ==
    IF rows = {} THEN <<>>
    ELSE LET first == CHOOSE r \in rows : \A q \in rows :
                 \/ Rank(TitleOrder, r.title) < Rank(TitleOrder, q.title)
                 \/ /\ r.title = q.title
                    /\ Rank(UsernameOrder, r.username) <= Rank(UsernameOrder, q.username)
         IN <<first>> \o InIndexOrder(rows \ {first})

\* The loop with a row that fails to decrypt left out of the list.
RECURSIVE DecryptAll_SkipFailed(_, _)
DecryptAll_SkipFailed(records, out) ==
    IF records = <<>> THEN [ok |-> TRUE, val |-> out]
    ELSE LET row == Head(records)
             plain == decrypt(row.password)
         IN IF plain.ok
            THEN DecryptAll_SkipFailed(Tail(records),
                     Append(out, [title |-> row.title, username |-> row.username,
                                  url |-> row.url, password |-> plain.val]))
            ELSE DecryptAll_SkipFailed(Tail(records), out)

\* The loop of read_password over the rows fetched: the list out, or the
\* first exception.
RECURSIVE DecryptAll(_, _)
DecryptAll(records, out) ==
    IF records = <<>> THEN [ok |-> TRUE, val |-> out]
    ELSE LET row == Head(records)
             plain == decrypt(row.password)
         IN IF plain.ok
            THEN DecryptAll(Tail(records),
                     Append(out, [title |-> row.title, username |-> row.username,
                                  url |-> row.url, password |-> plain.val]))
            ELSE plain

\* What a failed decrypt becomes: InvalidToken is caught and answered with
\* 401, anything else is not caught.
DecryptFailure(exception) ==
    IF exception = "InvalidToken"
    THEN HTTPException(401, "Invalid credentials. Set main password correctly.")
    ELSE Unhandled(exception)

\* read_password(title)
read_password(w, title) ==
    /\ Accepts(w)
    /\ req' = [req EXCEPT ![w] = PathRequest("read", title, "")]
    /\ LET records == InIndexOrder({r \in passwords : r.title = title})
           out == DecryptAll(records, <<>>)
       IN IF records = <<>>
          THEN Respond(w, HTTPException(404, "title not found."))
          ELSE IF out.ok THEN Respond(w, Ok(out.val))
          ELSE Respond(w, DecryptFailure(out.val))
    /\ UNCHANGED vault
    /\ UNCHANGED process
    /\ UNCHANGED generator

\* The response of read_one_password(title, username) on a table.
ReadOne(table, title, username) ==
    LET rows == Matching(table, title, username)
    IN IF rows = {}
       THEN HTTPException(404, "Entry not found.")
       ELSE LET row == CHOOSE r \in rows : TRUE
                plain == decrypt(row.password)
            IN IF plain.ok
               THEN Ok([title |-> title, username |-> username,
                        url |-> row.url, password |-> plain.val])
               ELSE DecryptFailure(plain.val)

\* read_one_password(title, username)
read_one_password(w, title, username) ==
    /\ Accepts(w)
    /\ req' = [req EXCEPT ![w] = PathRequest("read_one", title, username)]
    /\ Respond(w, ReadOne(passwords, title, username))
    /\ UNCHANGED vault
    /\ UNCHANGED process
    /\ UNCHANGED generator

\* DELETE FROM passwords WHERE title = ? AND username = ?
Deleted(table, title, username) == table \ Matching(table, title, username)

\* delete_password, up to the DELETE: the request is in hand.
delete_password(w, title, username) ==
    /\ Accepts(w)
    /\ req' = [req EXCEPT ![w] = PathRequest("delete", title, username)]
    /\ rpc' = [rpc EXCEPT ![w] = "delete_execute"]
    /\ UNCHANGED <<local, resp>>
    /\ UNCHANGED vault
    /\ UNCHANGED process
    /\ UNCHANGED generator

\* delete_password: cursor.execute(DELETE ...), which takes the write lock;
\* cursor.rowcount is the number of rows it removed.
delete_execute(w) ==
    /\ rpc[w] = "delete_execute"
    /\ IF Busy
       THEN /\ Respond(w, DatabaseLocked)
            /\ db_lock' \in AfterTimeout
       ELSE /\ db_lock' = w
            /\ local' = [local EXCEPT ![w] =
                   [NoLocal EXCEPT
                       !.txn = Deleted(passwords, req[w].title, req[w].username),
                       !.seq = sqlite_sequence,
                       !.rowcount = Cardinality(passwords) -
                           Cardinality(Deleted(passwords, req[w].title,
                                               req[w].username))]]
            /\ rpc' = [rpc EXCEPT ![w] = "delete_commit"]
            /\ UNCHANGED resp
    /\ UNCHANGED <<schema, master_password, passwords, sqlite_sequence>>
    /\ UNCHANGED process
    /\ UNCHANGED <<req, during>>
    /\ UNCHANGED generator

\* delete_password: conn.commit(); 404 if cursor.rowcount == 0
delete_commit(w) ==
    /\ rpc[w] = "delete_commit"
    /\ passwords' = local[w].txn
    /\ db_lock' = 0
    /\ IF local[w].rowcount = 0
       THEN Respond(w, HTTPException(404, "Password entry not found."))
       ELSE Respond(w, Ok("Password entry deleted."))
    /\ UNCHANGED <<schema, master_password, sqlite_sequence>>
    /\ UNCHANGED process
    /\ UNCHANGED <<req, during>>
    /\ UNCHANGED generator

\* The SELECT without its WHERE clause.
SelectIds_NoWhere(table, title, username) == {r.id : r \in table}

\* SELECT id FROM passwords WHERE title = ? AND username = ?
SelectIds(table, title, username) ==
    {r.id : r \in Matching(table, title, username)}

\* update_password, up to the UPDATE: the SELECT of the pair's ids, 404 if
\* there are none; then the password is generated or taken from the entry,
\* and encrypted.
update_password(w, entry, draw) ==
    /\ Accepts(w)
    /\ req' = [req EXCEPT ![w] = Request("update", entry)]
    /\ IF SelectIds(passwords, entry.title, entry.username) = {}
       THEN Respond(w, HTTPException(404, "Password entry not found."))
       ELSE LET plain == IF entry.generate
                         THEN generate_password(DefaultLength, draw)
                         ELSE entry.password
                encrypted_password == encrypt(plain)
            IN IF encrypted_password.ok
               THEN /\ rpc' = [rpc EXCEPT ![w] = "update_execute"]
                    /\ local' = [local EXCEPT ![w] =
                           [NoLocal EXCEPT !.password = plain,
                                           !.encrypted_password = encrypted_password.val]]
                    /\ UNCHANGED resp
               ELSE Respond(w, Unhandled(encrypted_password.val))
    /\ UNCHANGED vault
    /\ UNCHANGED process
    /\ UNCHANGED generator

\* The UPDATE with WHERE title = ? alone.
Updated_ByTitle(table, title, username, url, encrypted_password) ==
    {IF r.title = title
     THEN [r EXCEPT !.password = encrypted_password, !.url = url]
     ELSE r : r \in table}

\* UPDATE passwords SET password = ?, url = ? WHERE title = ? AND username = ?
Updated(table, title, username, url, encrypted_password) ==
    {IF r.title = title /\ r.username = username
     THEN [r EXCEPT !.password = encrypted_password, !.url = url]
     ELSE r : r \in table}

\* update_password: cursor.execute(UPDATE ...), which takes the write lock.
update_execute(w) ==
    /\ rpc[w] = "update_execute"
    /\ IF Busy
       THEN /\ Respond(w, DatabaseLocked)
            /\ db_lock' \in AfterTimeout
       ELSE /\ db_lock' = w
            /\ local' = [local EXCEPT ![w].seq = sqlite_sequence,
                                      ![w].txn = Updated(passwords, req[w].title,
                                          req[w].username, req[w].url,
                                          local[w].encrypted_password)]
            /\ rpc' = [rpc EXCEPT ![w] = "update_commit"]
            /\ UNCHANGED resp
    /\ UNCHANGED <<schema, master_password, passwords, sqlite_sequence>>
    /\ UNCHANGED process
    /\ UNCHANGED <<req, during>>
    /\ UNCHANGED generator

\* update_password: conn.commit(); return entry
update_commit(w) ==
    /\ rpc[w] = "update_commit"
    /\ passwords' = local[w].txn
    /\ db_lock' = 0
    /\ Respond(w, Ok(Returned(req[w], local[w].password)))
    /\ UNCHANGED <<schema, master_password, sqlite_sequence>>
    /\ UNCHANGED process
    /\ UNCHANGED <<req, during>>
    /\ UNCHANGED generator

\* The titles of a table, in index order.
RECURSIVE TitlesInOrder(_, _)
TitlesInOrder(table, i) ==
    IF i > Len(TitleOrder) THEN <<>>
    ELSE (IF \E r \in table : r.title = TitleOrder[i] THEN <<TitleOrder[i]>> ELSE <<>>)
         \o TitlesInOrder(table, i + 1)

\* list_titles: SELECT DISTINCT title FROM passwords
list_titles(w) ==
    /\ Accepts(w)
    /\ req' = [req EXCEPT ![w] = PathRequest("titles", "", "")]
    /\ Respond(w, Ok(TitlesInOrder(passwords, 1)))
    /\ UNCHANGED vault
    /\ UNCHANGED process
    /\ UNCHANGED generator

\* generate_password(length), called on its own: range(length) is empty for a
\* length of zero or less, and the join of nothing is "".
generate(len, draw) ==
    /\ length' = len
    /\ generated' = [ok |-> TRUE, val |-> generate_password(len, draw)]
    /\ UNCHANGED vault
    /\ UNCHANGED process
    /\ UNCHANGED workers

\* ------------------------------------------------------- the specifications

\* The draws a request is given: none are made unless it asks for a password.
DrawsFor(entry) ==
    IF entry.generate THEN Draws(DefaultLength)
    ELSE {[i \in 1 .. DefaultLength |-> 126]}

Main ==
    \/ create_db
    \/ branch
    \/ \E typed \in SetupTyped : setup_password(typed)
    \/ \E typed \in SetupTyped : setup_confirm(typed)
    \/ \E typed \in Typed : verify(typed)
    \/ init_cipher
    \/ uvicorn_run
    \/ interrupt
    \/ start_process

\* What worker w may do, its requests drawn from the given inputs.
Handler(w, entries, titles, usernames) ==
    \/ \E entry \in entries : \E draw \in DrawsFor(entry) :
           create_password(w, entry, draw)
    \/ create_insert(w)
    \/ create_commit(w)
    \/ \E title \in titles : read_password(w, title)
    \/ \E title \in titles : \E username \in usernames :
           read_one_password(w, title, username)
    \/ \E title \in titles : \E username \in usernames :
           delete_password(w, title, username)
    \/ delete_execute(w)
    \/ delete_commit(w)
    \/ \E entry \in entries : \E draw \in DrawsFor(entry) :
           update_password(w, entry, draw)
    \/ update_execute(w)
    \/ update_commit(w)
    \/ list_titles(w)
    \/ get_db_close(w)

\* The program with its requests served one at a time.
Next == Main \/ Handler(1, Entries, Titles, Usernames) \/ collect
Spec == Init /\ [][Next]_vars

\* The server of a vault set up with "abcd", its requests served by two
\* workers at once, from the start of serving.
ConcTitles == {"github"}
ConcUsernames == {"alice", "bob"}
ConcEntries ==
    {e \in Entries :
        e.title \in ConcTitles /\ e.username \in ConcUsernames /\ ~e.generate}

InitConc ==
    /\ schema = TRUE
    /\ master_password = {[id |-> 1, password_hash |-> hash_password(pw_abcd)]}
    /\ passwords = {}
    /\ sqlite_sequence = 0
    /\ db_lock = 0
    /\ run = 1
    /\ pc = "serving"
    /\ password = pw_abcd
    /\ attempts = 0
    /\ cipher = FernetKey(encoded_pass(pw_abcd))
    /\ prompts = 0
    /\ inits = 1
    /\ confirm = pw_abcd
    /\ rpc = [w \in Workers |-> "idle"]
    /\ req = [w \in Workers |-> NoReq]
    /\ local = [w \in Workers |-> NoLocal]
    /\ resp = [w \in Workers |-> NoResp]
    /\ during = [w \in Workers |-> {}]
    /\ length = DefaultLength
    /\ generated = NotCalled

NextConc ==
    \/ \E w \in Workers : Handler(w, ConcEntries, ConcTitles, ConcUsernames)
    \/ collect
SpecConc == InitConc /\ [][NextConc]_vars

\* The password generator called with lengths on both sides of zero, beside a
\* server whose requests are about one pair.
GenLengths == -1 .. MaxLen
\* "A", "\\" and "~", as far as they are in `characters`.
GenSample == {65, 92, 126} \cap characters
GenDraws(len) == [1 .. len -> GenSample]
GenTitles == {"github"}
GenUsernames == {"alice"}
GenEntries == {e \in Entries : e.title \in GenTitles /\ e.username \in GenUsernames}

NextGen ==
    \/ \E len \in GenLengths : \E draw \in GenDraws(len) : generate(len, draw)
    \/ Handler(1, GenEntries, GenTitles, GenUsernames)
    \/ collect
SpecGen == InitConc /\ [][NextGen]_vars

\* The server over a vault file that it did not write alone.  The rows the
\* file holds at the start were encrypted by a process whose master password
\* was "wxyz"; this process was started from the command line with "abcd",
\* the password of the file's master_password row, or the module was imported
\* by an ASGI server (`uvicorn keypass.main:app`), which runs none of __main__
\* and leaves the cipher None.
\* "old"
pw_old == <<111, 108, 100>>
\* "é"
pw_e == <<233>>
StaleKey == FernetKey(encoded_pass(pw_wxyz))
StaleRow(id, username) ==
    [id |-> id, title |-> "github", username |-> username, url |-> "N/A",
     password |-> Token(StaleKey, Utf8Encode(pw_old))]
StaleTables ==
    {{}, {StaleRow(1, "alice")}, {StaleRow(1, "bob")},
     {StaleRow(1, "alice"), StaleRow(2, "bob")},
     {StaleRow(1, "bob"), StaleRow(2, "alice")}}

ServeTitles == {"github"}
ServeUsernames == {"alice", "bob"}
ServeEntries ==
    [title : ServeTitles, username : ServeUsernames, url : Urls,
     password : {None, pw_e}, generate : {FALSE}]

InitServe ==
    /\ schema = TRUE
    /\ master_password = {[id |-> 1, password_hash |-> hash_password(pw_abcd)]}
    /\ passwords \in StaleTables
    /\ sqlite_sequence = Cardinality(passwords)
    /\ db_lock = 0
    /\ run = MaxRuns
    /\ pc = "serving"
    /\ attempts = 0
    /\ confirm = None
    /\ \/ /\ password = pw_abcd
          /\ cipher = FernetKey(encoded_pass(pw_abcd))
          /\ prompts = 1
          /\ inits = 1
       \/ /\ password = None
          /\ cipher = None
          /\ prompts = 0
          /\ inits = 0
    /\ rpc = [w \in Workers |-> "idle"]
    /\ req = [w \in Workers |-> NoReq]
    /\ local = [w \in Workers |-> NoLocal]
    /\ resp = [w \in Workers |-> NoResp]
    /\ during = [w \in Workers |-> {}]
    /\ length = DefaultLength
    /\ generated = NotCalled

NextServe == Handler(1, ServeEntries, ServeTitles, ServeUsernames) \/ collect
SpecServe == InitServe /\ [][NextServe]_vars

\* ---------------------------------------------------------------- the claims

\* Worker w's handler of an `op` request ends in this step.
Responds(w, op) ==
    /\ rpc[w] # "responded"
    /\ rpc'[w] = "responded"
    /\ req'[w].op = op

\* C1: in every reachable state no two rows of passwords have the same
\* (title, username) pair.
C1_UniquePair ==
    \A r \in passwords : \A q \in passwords :
        (r.title = q.title /\ r.username = q.username) => r = q

\* A second create of a stored pair was refused while two rows are stored.
C1_Witness ==
    /\ Cardinality(passwords) = 2
    /\ \E w \in Workers :
        /\ rpc[w] = "responded"
        /\ req[w].op = "create"
        /\ resp[w].status = 400

\* C2: when two creates of one (title, username) pair ran during one another
\* and both have ended, each ended in success or in DuplicateEntry (400), not
\* both in success, and exactly one row of the pair is stored.
C2_ConcurrentCreate ==
    \A w \in Workers : \A v \in Workers \ {w} :
        (/\ rpc[w] = "responded" /\ rpc[v] = "responded"
         /\ req[w].op = "create" /\ req[v].op = "create"
         /\ req[w].title = req[v].title /\ req[w].username = req[v].username
         /\ v \in during[w])
        => /\ resp[w].status \in {200, 400}
           /\ resp[v].status \in {200, 400}
           /\ ~(resp[w].status = 200 /\ resp[v].status = 200)
           /\ Cardinality(Matching(passwords, req[w].title, req[w].username)) = 1

\* C2, of creates that carry a password and whose INSERT did not wait for
\* the write lock in vain.
C2_WithPasswords ==
    \A w \in Workers : \A v \in Workers \ {w} :
        (/\ rpc[w] = "responded" /\ rpc[v] = "responded"
         /\ req[w].op = "create" /\ req[v].op = "create"
         /\ req[w].title = req[v].title /\ req[w].username = req[v].username
         /\ req[w].password # None /\ req[v].password # None
         /\ resp[w] # DatabaseLocked /\ resp[v] # DatabaseLocked
         /\ v \in during[w])
        => /\ resp[w].status \in {200, 400}
           /\ resp[v].status \in {200, 400}
           /\ ~(resp[w].status = 200 /\ resp[v].status = 200)
           /\ Cardinality(Matching(passwords, req[w].title, req[w].username)) = 1

\* C3: a create of a stored (title, username) pair ends in DuplicateEntry
\* (400) and leaves the table as it was; a create of a pair not stored ends in
\* success and adds exactly one row, of that pair.
C3_Create ==
    [][\A w \in Workers :
        Responds(w, "create") =>
            IF Matching(passwords, req'[w].title, req'[w].username) # {}
            THEN /\ resp'[w].status = 400
                 /\ passwords' = passwords
            ELSE /\ resp'[w].status = 200
                 /\ \E r \in passwords' :
                        /\ r \notin passwords
                        /\ r.title = req'[w].title
                        /\ r.username = req'[w].username
                        /\ passwords' = passwords \cup {r}]_vars

\* C3, of creates that carry a password or ask for one and whose INSERT did
\* not wait for the write lock in vain.
C3_WithPassword ==
    [][\A w \in Workers :
        (/\ Responds(w, "create")
         /\ req'[w].password # None \/ req'[w].generate
         /\ resp'[w] # DatabaseLocked) =>
            IF Matching(passwords, req'[w].title, req'[w].username) # {}
            THEN /\ resp'[w].status = 400
                 /\ passwords' = passwords
            ELSE /\ resp'[w].status = 200
                 /\ \E r \in passwords' :
                        /\ r \notin passwords
                        /\ r.title = req'[w].title
                        /\ r.username = req'[w].username
                        /\ passwords' = passwords \cup {r}]_vars

\* The gate in a state: at most 3 candidates read; Locked exactly after three
\* mismatches, with no cipher and no request served in that run.
C4_State ==
    /\ prompts <= 3
    /\ pc = "verify" => (attempts = prompts /\ attempts < 3)
    /\ (attempts = 3) <=> (pc = "locked")
    /\ pc = "locked" =>
        /\ prompts = 3
        /\ cipher = None
        /\ inits = 0
        /\ \A w \in Workers : rpc[w] = "idle" /\ req[w] = NoReq

\* The gate in a step: nothing but a new start follows Locked; a candidate is
\* read only by the verification loop, a match ending it at once; none is read
\* from then on.
C4_Step ==
    /\ pc = "locked" => (pc' = "locked" \/ (run' = run + 1 /\ pc' = "start"))
    /\ (run' = run /\ prompts' # prompts) =>
        /\ pc = "verify"
        /\ prompts' = prompts + 1
        /\ pc' = IF hash_password(password') = stored_hash THEN "init_cipher"
                 ELSE IF prompts' = 3 THEN "locked"
                 ELSE "verify"
    /\ (run' = run /\ pc \in {"init_cipher", "uvicorn_run", "serving"}) =>
        prompts' = prompts

\* C4: on a start that finds a master-password row the verification loop
\* reads at most 3 candidates.  After three mismatches the process is Locked:
\* the cipher was not initialized in that run, no request was served, and
\* nothing but a new start of the program follows.  A candidate that matches,
\* be it the first, second or third, ends the loop at once (init_cipher is
\* next) and no further candidate is read in that run.
C4_Gate == []C4_State /\ [][C4_Step]_vars

\* The third candidate read did not match: the process is Locked.
C4_Witness == pc = "locked" /\ prompts = 3 /\ run = 2

\* The cipher in a state: initialized at most once in the run; if initialized,
\* then after the gate, under a password whose hash is the stored one; and
\* initialized once wherever requests are served.
C5_State ==
    /\ inits <= 1
    /\ cipher # None =>
        /\ inits = 1
        /\ pc \in {"uvicorn_run", "serving", "stopped"}
        /\ master_password # {}
        /\ hash_password(password) = stored_hash
    /\ (pc = "serving" \/ \E w \in Workers : rpc[w] # "idle") =>
        (cipher # None /\ inits = 1)

\* The cipher in a step: once set it stays as it is while the process runs,
\* and it is set to the key derived from the password the gate returned.
C5_Step ==
    /\ (run' = run /\ cipher # None) => (cipher' = cipher /\ password' = password)
    /\ (run' = run /\ cipher = None /\ cipher' # None) =>
        /\ password' = password
        /\ cipher' = FernetKey(encoded_pass(password))

\* The step the process takes once the setup or the verification has
\* returned a password, unless the operator ends the process first: the
\* cipher is initialized, for the first time in the run.
C5_Initializes ==
    (pc = "init_cipher" /\ pc' # "stopped") =>
        /\ inits = 0 /\ inits' = 1
        /\ cipher' = FernetKey(encoded_pass(password))
        /\ pc' = "uvicorn_run"

\* C5: in every process run whose setup or verification has succeeded the
\* cipher is initialized exactly once: never before the gate has returned a
\* password, in the very step that follows its return, with the key derived
\* from that password, whose hash is the stored one, and before any request
\* is served; once initialized it does not change while the process runs.
\* (A run that ends Locked, or that the operator ends before the gate
\* returns, initializes no cipher and serves no request.)
C5_CipherOnce == []C5_State /\ [][C5_Step /\ C5_Initializes]_vars

\* What holds of the cipher although init_cipher can fail: at most one
\* initialization in a run, after the gate, under the verified password,
\* before any request, and no change afterwards.
C5_AtMostOnce == []C5_State /\ [][C5_Step]_vars

\* A second run serves after a verification that took two candidates.
C5_Witness == run = 2 /\ pc = "serving" /\ prompts = 2 /\ cipher # None

C6_State == Cardinality(master_password) <= 1

C6_Step == master_password # {} => master_password' = master_password

\* C6: across the process starts and the requests of a vault the table
\* master_password holds at most one row, and from its first row on the table
\* does not change.
C6_OneMaster == []C6_State /\ [][C6_Step]_vars

\* A second run, verified against the row the first run wrote, has served a
\* create.
C6_Witness ==
    /\ run = 2
    /\ pc = "serving"
    /\ prompts > 0
    /\ Cardinality(master_password) = 1
    /\ passwords # {}

\* The plaintext of the row of a pair.
Plain(table, title, username) ==
    decrypt((CHOOSE r \in Matching(table, title, username) : TRUE).password)

\* C7: an update of a stored pair that carries a url, no password and no
\* request for one ends in success, after which getOne returns the new url
\* and the password the row had before.
C7_UrlOnlyUpdate ==
    [][\A w \in Workers :
        (/\ Responds(w, "update")
         /\ req'[w].password = None
         /\ ~req'[w].generate
         /\ Matching(passwords, req'[w].title, req'[w].username) # {})
        => /\ resp'[w].status = 200
           /\ ReadOne(passwords', req'[w].title, req'[w].username) =
                  Ok([title |-> req'[w].title, username |-> req'[w].username,
                      url |-> req'[w].url,
                      password |-> Plain(passwords, req'[w].title, req'[w].username).val])]_vars

\* C8: an update of a pair that is not stored ends in NotFound (404) and
\* leaves the table as it was.
C8_UpdateMissing ==
    [][\A w \in Workers :
        (/\ Responds(w, "update")
         /\ Matching(passwords, req'[w].title, req'[w].username) = {})
        => /\ resp'[w].status = 404
           /\ passwords' = passwords]_vars

\* An update of a pair not stored was refused while another pair is stored.
C8_Witness ==
    /\ passwords # {}
    /\ \E w \in Workers :
        /\ rpc[w] = "responded"
        /\ req[w].op = "update"
        /\ resp[w].status = 404
        /\ Matching(passwords, req[w].title, req[w].username) = {}

\* C9: an update that ends in success leaves the number of rows as it was and
\* every row of another pair as it was; the row of its pair keeps its id,
\* title and username.
C9_UpdateFrame ==
    [][\A w \in Workers :
        (Responds(w, "update") /\ resp'[w].status = 200)
        => /\ Cardinality(passwords') = Cardinality(passwords)
           /\ \A r \in passwords :
                IF r.title = req'[w].title /\ r.username = req'[w].username
                THEN \E q \in passwords' :
                        q.id = r.id /\ q.title = r.title /\ q.username = r.username
                ELSE r \in passwords'
           /\ \A q \in passwords' :
                (q.title = req'[w].title /\ q.username = req'[w].username)
                \/ q \in passwords]_vars

\* An update of one of two stored rows has ended in success and changed the
\* url of its row.
C9_Witness ==
    /\ Cardinality(passwords) = 2
    /\ \E w \in Workers :
        /\ rpc[w] = "responded"
        /\ req[w].op = "update"
        /\ resp[w].status = 200
        /\ \E r \in Matching(passwords, req[w].title, req[w].username) :
               r.url = req[w].url /\ r.url # "N/A"

\* C10: a delete of a stored pair removes the row of that pair and no other,
\* after which getOne of the pair ends in NotFound (404); a delete of a pair
\* not stored ends in NotFound (404) and leaves the table as it was.
C10_Delete ==
    [][\A w \in Workers :
        Responds(w, "delete") =>
            IF Matching(passwords, req'[w].title, req'[w].username) # {}
            THEN /\ resp'[w].status = 200
                 /\ passwords' =
                        passwords \ Matching(passwords, req'[w].title, req'[w].username)
                 /\ ReadOne(passwords', req'[w].title, req'[w].username).status = 404
            ELSE /\ resp'[w].status = 404
                 /\ passwords' = passwords]_vars

\* C10, of deletes whose DELETE did not wait for the write lock in vain.
C10_Unlocked ==
    [][\A w \in Workers :
        (Responds(w, "delete") /\ resp'[w] # DatabaseLocked) =>
            IF Matching(passwords, req'[w].title, req'[w].username) # {}
            THEN /\ resp'[w].status = 200
                 /\ passwords' =
                        passwords \ Matching(passwords, req'[w].title, req'[w].username)
                 /\ ReadOne(passwords', req'[w].title, req'[w].username).status = 404
            ELSE /\ resp'[w].status = 404
                 /\ passwords' = passwords]_vars

\* The response that stands for InvalidCredentials.
InvalidCredentials ==
    HTTPException(401, "Invalid credentials. Set main password correctly.")

\* The record a read shows for a row whose password the cipher opens.
Shown(r) ==
    [title |-> r.title, username |-> r.username, url |-> r.url,
     password |-> Utf8Decode(r.password.data)]

RoundTripStrings == {<<>>, pw_user, pw_e, pw_ebcd}

\* C12: under one key decrypt undoes encrypt, for the empty string, for ASCII
\* and for non-ASCII strings; and when a create or an update that carried a
\* password has succeeded, a read of the pair under the same key returns that
\* password and the url of the request.
C12_RoundTrip ==
    /\ cipher # None =>
           \A s \in RoundTripStrings :
               /\ encrypt(s).ok
               /\ decrypt(encrypt(s).val) = [ok |-> TRUE, val |-> s]
    /\ /\ rpc[1] = "responded"
       /\ req[1].op \in {"create", "update"}
       /\ ~req[1].generate
       /\ resp[1].status = 200
       => ReadOne(passwords, req[1].title, req[1].username) =
              Ok([title |-> req[1].title, username |-> req[1].username,
                  url |-> req[1].url, password |-> req[1].password])

\* An update that carried "é" and a new url has succeeded on a row that an
\* earlier create had written.
C12_Witness ==
    /\ rpc[1] = "responded" /\ req[1].op = "update" /\ resp[1].status = 200
    /\ req[1].password = pw_e /\ req[1].url = "https://github.com"
    /\ \E r \in Matching(passwords, req[1].title, req[1].username) :
           r.password = Token(cipher, Utf8Encode(pw_e))

Uninitialized == Unhandled("RuntimeError")

\* Worker w's request, answered in this step, is one that encrypts or
\* decrypts: a create, an update of a stored pair, a read of a stored pair or
\* a read of a title that has rows.
UsesCipher(w) ==
    \/ Responds(w, "create")
    \/ /\ Responds(w, "update") \/ Responds(w, "read_one")
       /\ Matching(passwords, req'[w].title, req'[w].username) # {}
    \/ /\ Responds(w, "read")
       /\ \E r \in passwords : r.title = req'[w].title

C14_State ==
    cipher = None =>
        \A w \in Workers :
            rpc[w] \notin {"create_insert", "create_commit",
                           "update_execute", "update_commit"}

C14_Step ==
    cipher = None =>
        \A w \in Workers :
            UsesCipher(w) =>
                /\ resp'[w] = Uninitialized
                /\ passwords' = passwords
                /\ sqlite_sequence' = sqlite_sequence

\* C14: while the cipher is None, every create, every update or read of a
\* stored pair and every read of a title that has rows ends with get_cipher's
\* RuntimeError, in a step that leaves the table and its counter as they
\* were; no such request gets as far as its INSERT or UPDATE.
C14_Uninitialized == []C14_State /\ [][C14_Step]_vars

\* An update of a stored pair has failed on the cipher being None.
C14_Witness ==
    /\ cipher = None
    /\ rpc[1] = "responded" /\ req[1].op = "update"
    /\ Matching(passwords, req[1].title, req[1].username) # {}
    /\ resp[1] = Uninitialized

\* The statuses of success and of the outcomes the handlers raise on purpose:
\* DuplicateEntry (400), InvalidCredentials (401) and NotFound (404).
HandledStatuses == {200, 400, 401, 404}

\* C15: every request the server answers ends in success or in one of the
\* outcomes the handlers raise on purpose; none ends in the 500 of an
\* exception that no handler caught.
C15_Outcomes ==
    \A w \in Workers :
        rpc[w] = "responded" => resp[w].status \in HandledStatuses

\* C16: a direct call of generate_password with a length of zero or less is
\* rejected: it returns no string.
C16_RejectsNonPositive ==
    generated # NotCalled /\ length <= 0 => ~generated.ok

\* s is made of printable ASCII other than the space and the backslash, which
\* is what letters, digits and punctuation without "\\" come to.
Approved(s) == \A i \in 1 .. Len(s) : s[i] \in 33 .. 126 /\ s[i] # 92

\* C17: a direct call of generate_password with a length L of 1 or more
\* returns a string of exactly L approved characters; and a create or an
\* update that asked for generation and succeeded returns, and has stored
\* under the pair, a password of 16 approved characters, whatever password
\* the request carried.
C17_Generate ==
    /\ generated.ok /\ length >= 1 =>
           Len(generated.val) = length /\ Approved(generated.val)
    /\ /\ rpc[1] = "responded"
       /\ req[1].op \in {"create", "update"}
       /\ req[1].generate
       /\ resp[1].status = 200
       => /\ Len(resp[1].body.password) = DefaultLength
          /\ Approved(resp[1].body.password)
          /\ resp[1].body.password # req[1].password
          /\ ReadOne(passwords, req[1].title, req[1].username) =
                 Ok([title |-> req[1].title, username |-> req[1].username,
                     url |-> req[1].url, password |-> resp[1].body.password])

\* A direct call has returned a password of the greatest length asked, and an
\* update that carried a password and asked for generation has succeeded.
C17_Witness ==
    /\ generated.ok /\ length = MaxLen /\ Len(generated.val) = MaxLen
    /\ rpc[1] = "responded" /\ req[1].op = "update"
    /\ req[1].generate /\ req[1].password = pw_user
    /\ resp[1].status = 200

\* C18: the key handed to the cipher for a password that the setup accepted,
\* or that the verification accepted after it, decodes to exactly 32 bytes,
\* and init_cipher does not fail.
C18_KeyLength ==
    /\ pc = "init_cipher" =>
           Len(FernetKey(encoded_pass(password))) = 32
    /\ pc # "crashed"

\* The hashes in table master_password.
StoredHashes == {r.password_hash : r \in master_password}

C19_Step ==
    /\ master_password' # master_password =>
           /\ pc = "setup_confirm" /\ pc' = "init_cipher"
           /\ master_password = {}
    /\ pc = "setup_password" /\ pc' # "stopped" =>
           IF Len(password') >= 4
           THEN pc' = "setup_confirm"
           ELSE pc' = "setup_password"
    /\ pc = "setup_confirm" /\ pc' # "stopped" =>
           IF confirm' = password
           THEN pc' = "init_cipher"
           ELSE pc' = "setup_password"
    /\ pc = "setup_confirm" /\ pc' = "init_cipher" =>
           /\ password' = password
           /\ Len(password') >= 4
           /\ confirm' = password'
           /\ StoredHashes' = {hash_password(password')}

\* C19: the setup flow writes to master_password only in the step in which it
\* returns, on an empty table; a password of fewer than 4 characters sends it
\* back to the first prompt, and so does a confirmation that differs; it
\* returns only on a confirmation equal to a password of 4 characters or
\* more, and then the table holds the hash of the password returned and no
\* other.
C19_Setup == [][C19_Step]_vars

\* The setup has returned "abcd" to __main__, its hash stored.
C19_Witness ==
    /\ pc = "init_cipher" /\ run = 1
    /\ password = pw_abcd /\ confirm = pw_abcd
    /\ StoredHashes = {hash_password(pw_abcd)}

C20_Step ==
    \A w \in Workers :
        Responds(w, "update") /\ resp'[w].status = 200 =>
            \E r \in Matching(passwords', req'[w].title, req'[w].username) :
                /\ r.url = req'[w].url
                /\ r.password = local[w].encrypted_password

\* C20: with two workers, whose requests include updates and deletes of the
\* same pair, an update answers with success only in a step that commits its
\* url and its encrypted password to a row of the pair.
C20_UpdateVsDelete == [][C20_Step]_vars

====
